---- MODULE Spec2Model ----
(***************************************************************************)
(* Wallet-balance ledger of the expenses tracker (src/app.py).             *)
(*                                                                         *)
(* The store is the SQLite file expenses.db.  Every callback of the Dash   *)
(* application is a handler that runs in its own request; several browser  *)
(* sessions may run handlers concurrently against the one store.  A        *)
(* handler is cut into steps at the boundaries of its store transactions:  *)
(* each execute_with_retry call is one transaction, and the statements of  *)
(* a `with get_db_connection()` block belong to one transaction that is    *)
(* committed by conn.commit() or rolled back when the connection closes.   *)
(*                                                                         *)
(* Amounts are whole currency units; SQLite REAL arithmetic is exact on    *)
(* the values used here.                                                   *)
(*                                                                         *)
(* Spec and SeqSpec follow the wallet and expense handlers, with requests  *)
(* interleaved and one at a time; ExecSpec and ExecFair follow the         *)
(* connections and attempts of the store-access layer; CatSpec follows the *)
(* category handlers and the cache of get_categories; RestartSpec places   *)
(* starts of the process, each running the database setup, between calls   *)
(* of all these handlers.                                                  *)
(***************************************************************************)
EXTENDS Integers, Sequences, FiniteSets, TLC

VARIABLES
    db,       \* committed content of expenses.db
    writer,   \* session holding SQLite's write lock, 0 when free
    pc,       \* position of each session's running handler
    local,    \* local variables of each session's running handler
    shown,    \* the (ID, Status) rows open wallets-tables may hold
    rt,       \* history: the last recorded expense and the store before it
    calls,    \* history: number of handlers started
    mode,     \* how requests arrive: "interleaved", "sequential", "restart"
    ex,       \* each session's running execute_with_retry call or write block
    cache     \* the lru_cache of get_categories, shared by all sessions

vars == <<db, writer, pc, local, shown, rt, calls, mode, ex, cache>>

-----------------------------------------------------------------------------
(* Bounds of the model *)

Sessions == {1, 2}

MaxExpenses == 2        \* expense ids ever issued
MaxWallets == 3         \* wallet ids ever issued
MaxCalls == 3           \* handlers started while requests interleave
MaxSeqCalls == 5        \* handlers started while requests come one at a time
MaxRestartCalls == 3    \* handlers and process starts, one at a time

(* Program constants *)

MainOpening == 1000     \* seed "Main Wallet"
MpesaOpening == 500     \* seed "Mpesa Wallet"

wallet_types == {"Cash", "Mpesa", "Bank"}

-----------------------------------------------------------------------------
(* Text: a Python str is a sequence of one-character strings; a value that *)
(* is not a str (None) has isstr = FALSE.                                  *)

Str(s) == [isstr |-> TRUE, s |-> s]
NoneText == [isstr |-> FALSE, s |-> <<>>]

WordChars ==
    {"M", "a", "i", "n", "W", "l", "e", "t", "p", "s", "B", "k", "_",
     "F", "o", "d", "T", "r", "U", "E", "O", "h", "R", "G", "y", "m"}
SpaceChars == {" "}

RECURSIVE LStrip(_)
LStrip(s) == IF s # <<>> /\ Head(s) \in SpaceChars THEN LStrip(Tail(s)) ELSE s

RECURSIVE RStrip(_)
RStrip(s) ==
    IF s # <<>> /\ s[Len(s)] \in SpaceChars
    THEN RStrip(SubSeq(s, 1, Len(s) - 1))
    ELSE s

Strip(s) == RStrip(LStrip(s))

\* re.sub(r'[^\w\s-]', '', ...)
RECURSIVE KeepAllowed(_)
KeepAllowed(s) ==
    IF s = <<>> THEN <<>>
    ELSE IF Head(s) \in WordChars \cup SpaceChars \cup {"-"}
         THEN <<Head(s)>> \o KeepAllowed(Tail(s))
         ELSE KeepAllowed(Tail(s))

sanitize_input(text) ==
    IF ~text.isstr THEN <<>> ELSE KeepAllowed(Strip(text.s))

MainName == <<"M", "a", "i", "n", " ", "W", "a", "l", "l", "e", "t">>
MpesaName == <<"M", "p", "e", "s", "a", " ", "W", "a", "l", "l", "e", "t">>

\* line 79: the names of the seed categories, in the order of their ids
SeedCategories ==
    <<<<"F", "o", "o", "d">>,
      <<"T", "r", "a", "n", "s", "p", "o", "r", "t">>,
      <<"U", "t", "i", "l", "i", "t", "i", "e", "s">>,
      <<"E", "n", "t", "e", "r", "t", "a", "i", "n", "m", "e", "n", "t">>,
      <<"O", "t", "h", "e", "r">>>>

-----------------------------------------------------------------------------
(* The store *)

Wallet(type, name, opening) ==
    [type |-> type, name |-> name, opening_balance |-> opening,
     current_balance |-> opening, is_archived |-> FALSE]

\* rows inserted by the database setup into an empty store
SeedDb ==
    [wallets |-> (1 :> Wallet("Cash", MainName, MainOpening))
                 @@ (2 :> Wallet("Mpesa", MpesaName, MpesaOpening)),
     wallet_seq |-> 2,
     expenses |-> <<>>,
     expense_seq |-> 0,
     categories |-> SeedCategories,
     category_seq |-> Len(SeedCategories),
     subcategories |-> <<>>,
     subcategory_seq |-> 0]

Remove(f, k) == [x \in DOMAIN f \ {k} |-> f[x]]

DebitMissed(balance, amount) == balance
\* UPDATE wallets SET current_balance = current_balance - ?
Debit(balance, amount) == balance - amount

CreditMissed(balance, amount) == balance
\* UPDATE wallets SET current_balance = current_balance + ?
Credit(balance, amount) == balance + amount

\* SQL statements, as the records a transaction collects
InsertExpense(w, a) == [op |-> "INSERT expenses", id |-> 0, wallet_id |-> w, amount |-> a]
DebitOtherWallet(w, a) ==
    [op |-> "UPDATE balance -", id |-> 0, wallet_id |-> (w % 2) + 1, amount |-> a]
DebitWallet(w, a) == [op |-> "UPDATE balance -", id |-> 0, wallet_id |-> w, amount |-> a]
DeleteNoRow(e) == [op |-> "DELETE expenses", id |-> 0, wallet_id |-> 0, amount |-> 0]
DeleteExpenseRow(e) == [op |-> "DELETE expenses", id |-> e, wallet_id |-> 0, amount |-> 0]
CreditNothing(w, a) == [op |-> "UPDATE balance +", id |-> 0, wallet_id |-> w, amount |-> 0]
CreditWallet(w, a) == [op |-> "UPDATE balance +", id |-> 0, wallet_id |-> w, amount |-> a]

\* The effect of one statement on the content d of the store.  The expenses
\* table is AUTOINCREMENT: a new row takes the id after the largest ever
\* issued.  Foreign keys are declared but not enforced (no PRAGMA
\* foreign_keys), and an UPDATE or DELETE whose WHERE matches no row is a
\* successful no-op.
ApplyStmt(d, st) ==
    CASE st.op = "INSERT expenses" ->
            [d EXCEPT !.expenses = ((d.expense_seq + 1) :>
                                      [wallet_id |-> st.wallet_id, amount |-> st.amount]) @@ @,
                      !.expense_seq = @ + 1]
      [] st.op = "UPDATE balance -" ->
            IF st.wallet_id \in DOMAIN d.wallets
            THEN [d EXCEPT !.wallets[st.wallet_id].current_balance = Debit(@, st.amount)]
            ELSE d
      [] st.op = "DELETE expenses" ->
            [d EXCEPT !.expenses = Remove(@, st.id)]
      [] st.op = "UPDATE balance +" ->
            IF st.wallet_id \in DOMAIN d.wallets
            THEN [d EXCEPT !.wallets[st.wallet_id].current_balance = Credit(@, st.amount)]
            ELSE d

RECURSIVE ApplyAll(_, _)
ApplyAll(d, stmts) ==
    IF stmts = <<>> THEN d ELSE ApplyAll(ApplyStmt(d, Head(stmts)), Tail(stmts))

CommitFirstOnly(d, stmts) == IF stmts = <<>> THEN d ELSE ApplyStmt(d, Head(stmts))
\* conn.commit(): the statements of the open transaction become visible together
CommitTxn(d, stmts) == ApplyAll(d, stmts)

\* SELECT COUNT(*) FROM wallets WHERE is_archived = 0
ActiveWallets(d) == {w \in DOMAIN d.wallets : ~d.wallets[w].is_archived}

\* SELECT COUNT(*) FROM expenses WHERE wallet_id = ?
ExpensesOf(d, w) == {e \in DOMAIN d.expenses : d.expenses[e].wallet_id = w}

RECURSIVE SumAmounts(_, _)
SumAmounts(d, es) ==
    IF es = {} THEN 0
    ELSE LET e == CHOOSE x \in es : TRUE
         IN d.expenses[e].amount + SumAmounts(d, es \ {e})

StatusOf(archived) == IF archived THEN "Archived" ELSE "Active"

\* get_wallets_for_table(): ID and Status of every wallet row
WalletsTable(d) == [w \in DOMAIN d.wallets |-> StatusOf(d.wallets[w].is_archived)]

\* Every session's wallets-table `data` is a projection of the store read at
\* some earlier time (page load, or the return of add_wallet or
\* handle_wallet_action), and any number of browser sessions may be open: the
\* rows a caller can click are the rows some projection has shown so far.
Show(sh, d) ==
    [w \in DOMAIN sh \cup DOMAIN d.wallets |->
        (IF w \in DOMAIN sh THEN sh[w] ELSE {})
        \cup (IF w \in DOMAIN d.wallets THEN {WalletsTable(d)[w]} ELSE {})]

-----------------------------------------------------------------------------
(* Sessions *)

NoLocal ==
    [wallet_id |-> 0, amount |-> 0, balance |-> 0, new_balance |-> 0,
     expense_id |-> 0, action |-> "", status |-> "",
     txn |-> <<>>, outcome |-> "", mutated |-> FALSE, failed |-> FALSE,
     rows |-> <<>>, seen |-> {}]

NoRt == [phase |-> "none", id |-> 0, wallets |-> <<>>, expenses |-> <<>>]

\* no execute_with_retry call or write block has run in the session
NoEx ==
    [query |-> "", attempt |-> 0, conn |-> FALSE, trace |-> <<>>, slept |-> <<>>]

\* get_categories has no cached result
NoCache == [filled |-> FALSE, rows |-> <<>>]

\* the typed failures of the wallet guards (lines 645-649, 661-668)
InvariantViolation == {"LastActiveWallet", "WalletIsArchived", "WalletHasExpenses"}

\* a handler leaves with an outcome (the return value or the except clause
\* that produces it); the store is not touched any more
Leave(s, outcome) ==
    /\ pc' = [pc EXCEPT ![s] = "done"]
    /\ local' = [local EXCEPT ![s].outcome = outcome, ![s].txn = <<>>]

Called == calls' = calls + 1

\* A request is accepted while the session has no handler running.  Requests
\* that arrive one at a time wait for the running handler of every other
\* session and are followed for MaxSeqCalls handlers; interleaved requests are
\* followed for MaxCalls handlers.
CanStart(s) ==
    /\ pc[s] = "idle"
    /\ IF mode = "sequential"
       THEN calls < MaxSeqCalls /\ \A t \in Sessions \ {s} : pc[t] = "idle"
       ELSE IF mode = "restart"
       THEN calls < MaxRestartCalls /\ \A t \in Sessions \ {s} : pc[t] = "idle"
       ELSE calls < MaxCalls

\* a handler that starts ends any record/delete round trip it is not part of
StartRt == rt' = NoRt /\ Called /\ UNCHANGED <<mode, ex, cache>>

Started(m) ==
    /\ db = SeedDb
    /\ writer = 0
    /\ pc = [s \in Sessions |-> "idle"]
    /\ local = [s \in Sessions |-> NoLocal]
    /\ shown = Show(<<>>, SeedDb)
    /\ rt = NoRt
    /\ calls = 0
    /\ mode = m
    /\ ex = [s \in Sessions |-> NoEx]
    /\ cache = NoCache

Init == Started("interleaved")

InitSeq == Started("sequential")
InitRestart == Started("restart")

-----------------------------------------------------------------------------
(* Inputs a caller may present *)

None == <<>>                      \* an empty form field
Some(v) == <<v>>

AmountInputs == {None, Some(0), Some(500), Some(600)}
WalletIdInputs == 0 .. MaxWallets         \* 0: no wallet selected
ExpenseIdInputs == 0 .. MaxExpenses       \* 0: no id stored

InFlight(pcs) == Cardinality({t \in Sessions : pc[t] \in pcs})

SavePcs == {"se_read", "se_insert", "se_commit"}

DeletePcs == {"de_read", "de_delete", "de_commit"}

-----------------------------------------------------------------------------
(* save_expense: recordExpense *)

ArchivedIgnored(is_archived) == FALSE
\* line 745: if is_archived
Archived(is_archived) == is_archived

InsufficientReversed(balance, amount) == amount < balance
InsufficientOrEqual(balance, amount) == balance <= amount
\* line 748: if balance < amount
Insufficient(balance, amount) == balance < amount

InvalidNever(date, hour, minute, amount, wallet_id, category_id) == FALSE
\* line 736: not all([date, hour, minute, amount is not None, wallet_id,
\* category_id]) or amount <= 0
Invalid(date, hour, minute, amount, wallet_id, category_id) ==
    \/ ~(date /\ hour /\ minute /\ amount # None /\ wallet_id # 0 /\ category_id)
    \/ amount[1] <= 0

\* lines 735-738: the validation of the form
save_expense(s) ==
    /\ CanStart(s)
    /\ db.expense_seq + InFlight(SavePcs) < MaxExpenses
    /\ \E date, hour, minute, category_id \in BOOLEAN, amount \in AmountInputs,
          wallet_id \in WalletIdInputs :
          IF Invalid(date, hour, minute, amount, wallet_id, category_id)
          THEN Leave(s, "ValidationError")
          ELSE /\ pc' = [pc EXCEPT ![s] = "se_read"]
               /\ local' = [local EXCEPT ![s].wallet_id = wallet_id,
                                         ![s].amount = amount[1]]
    /\ StartRt
    /\ UNCHANGED <<db, writer, shown>>

\* lines 740-750: SELECT name, current_balance, is_archived and the checks
save_expense_read(s) ==
    /\ pc[s] = "se_read"
    /\ \/ Leave(s, "StoreError")                      \* execute_with_retry raises
       \/ LET w == local[s].wallet_id IN
          IF w \notin DOMAIN db.wallets
          THEN Leave(s, "NotFound")
          ELSE IF Archived(db.wallets[w].is_archived)
          THEN Leave(s, "WalletArchived")
          ELSE IF Insufficient(db.wallets[w].current_balance, local[s].amount)
          THEN Leave(s, "InsufficientBalance")
          ELSE /\ pc' = [pc EXCEPT ![s] = "se_insert"]
               /\ local' = [local EXCEPT ![s].balance = db.wallets[w].current_balance]
    /\ UNCHANGED <<db, writer, shown, rt>>
    /\ UNCHANGED <<calls, mode, ex, cache>>

\* lines 755-759: INSERT INTO expenses opens the write transaction
save_expense_insert(s) ==
    /\ pc[s] = "se_insert"
    /\ writer = 0
    /\ writer' = s
    /\ pc' = [pc EXCEPT ![s] = "se_commit"]
    /\ local' = [local EXCEPT ![s].txn =
                    <<InsertExpense(local[s].wallet_id, local[s].amount)>>]
    /\ UNCHANGED <<db, shown, rt>>
    /\ UNCHANGED <<calls, mode, ex, cache>>

\* lines 760-770: UPDATE wallets SET current_balance = current_balance - ?,
\* conn.commit() and the success return
save_expense_commit(s) ==
    /\ pc[s] = "se_commit"
    /\ db' = CommitTxn(db, Append(local[s].txn,
                                  DebitWallet(local[s].wallet_id, local[s].amount)))
    /\ writer' = 0
    /\ pc' = [pc EXCEPT ![s] = "done"]
    /\ local' = [local EXCEPT ![s].txn = <<>>,
                              ![s].expense_id = db'.expense_seq,
                              ![s].new_balance = local[s].balance - local[s].amount,
                              ![s].mutated = (db' # db),
                              ![s].outcome = "ok"]
    /\ rt' = [phase |-> "recorded", id |-> db'.expense_seq,
              wallets |-> db.wallets, expenses |-> db.expenses]
    /\ shown' = Show(shown, db')
    /\ UNCHANGED <<calls, mode, ex, cache>>

\* lines 755-762, 771-773: a statement or the commit raises sqlite3.Error; the
\* connection is closed with the transaction uncommitted, which rolls it back
save_expense_rollback(s) ==
    /\ pc[s] \in {"se_insert", "se_commit"}
    /\ writer' = IF writer = s THEN 0 ELSE writer
    /\ Leave(s, "StoreError")
    /\ UNCHANGED <<db, shown, rt>>
    /\ UNCHANGED <<calls, mode, ex, cache>>

-----------------------------------------------------------------------------
(* delete_expense: deleteExpense *)

\* lines 818-822: the trigger and the stored expense id
delete_expense(s) ==
    /\ CanStart(s)
    /\ \E expense_id \in ExpenseIdInputs, button \in {"confirm", "cancel"} :
          IF expense_id = 0
          THEN Leave(s, "PreventUpdate") /\ StartRt
          ELSE IF button = "cancel"
          THEN Leave(s, "Cancelled") /\ StartRt
          ELSE /\ pc' = [pc EXCEPT ![s] = "de_read"]
               /\ local' = [local EXCEPT ![s].expense_id = expense_id]
               /\ rt' = IF rt.phase = "recorded" /\ rt.id = expense_id
                        THEN [rt EXCEPT !.phase = "deleting"]
                        ELSE NoRt
               /\ Called
               /\ UNCHANGED <<mode, ex, cache>>
    /\ UNCHANGED <<db, writer, shown>>

\* lines 824-828: SELECT wallet_id, amount FROM expenses WHERE id = ?
delete_expense_read(s) ==
    /\ pc[s] = "de_read"
    /\ \/ Leave(s, "StoreError") /\ rt' = NoRt
       \/ LET e == local[s].expense_id IN
          IF e \notin DOMAIN db.expenses
          THEN Leave(s, "NotFound") /\ rt' = NoRt
          ELSE /\ pc' = [pc EXCEPT ![s] = "de_delete"]
               /\ local' = [local EXCEPT ![s].wallet_id = db.expenses[e].wallet_id,
                                         ![s].amount = db.expenses[e].amount]
               /\ UNCHANGED rt
    /\ UNCHANGED <<db, writer, shown>>
    /\ UNCHANGED <<calls, mode, ex, cache>>

\* lines 830-831: DELETE FROM expenses opens the write transaction
delete_expense_delete(s) ==
    /\ pc[s] = "de_delete"
    /\ writer = 0
    /\ writer' = s
    /\ pc' = [pc EXCEPT ![s] = "de_commit"]
    /\ local' = [local EXCEPT ![s].txn = <<DeleteExpenseRow(local[s].expense_id)>>]
    /\ UNCHANGED <<db, shown, rt>>
    /\ UNCHANGED <<calls, mode, ex, cache>>

\* lines 832-840: UPDATE wallets SET current_balance = current_balance + ?,
\* conn.commit() and the success return
delete_expense_commit(s) ==
    /\ pc[s] = "de_commit"
    /\ db' = CommitTxn(db, Append(local[s].txn,
                                  CreditWallet(local[s].wallet_id, local[s].amount)))
    /\ writer' = 0
    /\ pc' = [pc EXCEPT ![s] = "done"]
    /\ local' = [local EXCEPT ![s].txn = <<>>,
                              ![s].mutated = (db' # db),
                              ![s].outcome = "ok"]
    /\ rt' = IF rt.phase = "deleting" /\ rt.id = local[s].expense_id
             THEN [rt EXCEPT !.phase = "restored"]
             ELSE NoRt
    /\ shown' = Show(shown, db')
    /\ UNCHANGED <<calls, mode, ex, cache>>

\* lines 830-834, 841-843: failure inside the write block, rolled back
delete_expense_rollback(s) ==
    /\ pc[s] \in {"de_delete", "de_commit"}
    /\ writer' = IF writer = s THEN 0 ELSE writer
    /\ Leave(s, "StoreError")
    /\ rt' = NoRt
    /\ UNCHANGED <<db, shown>>
    /\ UNCHANGED <<calls, mode, ex, cache>>

-----------------------------------------------------------------------------
(* add_wallet: addWallet *)

NameInputs ==
    {NoneText, Str(<<"!", " ">>), Str(<<" ", "B", "k", "!">>), Str(MainName)}
TypeInputs == {"", "Bank", "Crypto"}      \* "": no type selected
OpeningInputs == {None, Some(0 - 500), Some(500)}

\* lines 584-588: sanitization and validation
add_wallet(s) ==
    /\ CanStart(s)
    /\ db.wallet_seq + InFlight({"aw_insert"}) < MaxWallets
    /\ \E name \in NameInputs, wtype \in TypeInputs, opening \in OpeningInputs :
          IF ~(sanitize_input(name) # <<>> /\ wtype # "" /\ opening # None)
             \/ opening[1] < 0
          THEN Leave(s, "ValidationError")
          ELSE /\ pc' = [pc EXCEPT ![s] = "aw_insert"]
               /\ local' = [local EXCEPT ![s].txn =
                    <<[op |-> "INSERT wallets", type |-> wtype,
                       name |-> sanitize_input(name), opening |-> opening[1]]>>]
    /\ StartRt
    /\ UNCHANGED <<db, writer, shown>>

NameNeverTaken(d, name) == FALSE
\* line 65: UNIQUE(name) on wallets
NameTaken(d, name) == \E w \in DOMAIN d.wallets : d.wallets[w].name = name

\* lines 589-605: INSERT INTO wallets and commit on a connection of its own,
\* then the refreshed projections; UNIQUE(name) raises IntegrityError
add_wallet_insert(s) ==
    /\ pc[s] = "aw_insert"
    /\ LET st == local[s].txn[1] IN
       \/ Leave(s, "StoreError") /\ UNCHANGED db
       \/ /\ writer = 0
          /\ IF NameTaken(db, st.name)
             THEN Leave(s, "DuplicateName") /\ UNCHANGED db
             ELSE /\ db' = [db EXCEPT
                        !.wallets = ((db.wallet_seq + 1) :>
                                        Wallet(st.type, st.name, st.opening)) @@ @,
                        !.wallet_seq = @ + 1]
                  /\ pc' = [pc EXCEPT ![s] = "done"]
                  /\ local' = [local EXCEPT ![s].txn = <<>>, ![s].mutated = TRUE,
                                            ![s].wallet_id = db.wallet_seq + 1,
                                            ![s].outcome = "ok"]
    /\ shown' = Show(shown, db')
    /\ rt' = NoRt
    /\ UNCHANGED writer
    /\ UNCHANGED <<calls, mode, ex, cache>>

-----------------------------------------------------------------------------
(* handle_wallet_action: setArchived and deleteWallet *)

ActionInputs == {"Archive", "Delete", "Name"}

\* lines 624-641, 660-664, 676-678: the clicked row of the caller's table and
\* the dispatch on the column; the status is the one the row shows
handle_wallet_action(s) ==
    /\ CanStart(s)
    /\ \E wallet_id \in DOMAIN shown, action \in ActionInputs :
       \E wallet_status \in shown[wallet_id] :
          LET l == [local[s] EXCEPT !.wallet_id = wallet_id, !.action = action,
                                    !.status = wallet_status]
          IN  CASE action = "Archive" ->
                     /\ pc' = [pc EXCEPT ![s] =
                           IF wallet_status = "Archived" THEN "wa_update" ELSE "wa_count"]
                     /\ local' = [local EXCEPT ![s] = l]
                [] action = "Delete" /\ wallet_status = "Archived" ->
                     /\ pc' = [pc EXCEPT ![s] = "done"]
                     /\ local' = [local EXCEPT ![s] = [l EXCEPT !.outcome = "WalletIsArchived"]]
                [] action = "Delete" /\ wallet_status # "Archived" ->
                     /\ pc' = [pc EXCEPT ![s] = "wa_unused"]
                     /\ local' = [local EXCEPT ![s] = l]
                [] OTHER ->
                     /\ pc' = [pc EXCEPT ![s] = "done"]
                     /\ local' = [local EXCEPT ![s].outcome = "PreventUpdate"]
    /\ StartRt
    /\ UNCHANGED <<db, writer, shown>>

CountFailsOpen(d, failed) == IF failed THEN 2 ELSE Cardinality(ActiveWallets(d))
\* lines 155-161: a failed query counts as 0
count_active_wallets(d, failed) == IF failed THEN 0 ELSE Cardinality(ActiveWallets(d))

UnusedUnchecked(d, w, failed) == TRUE
\* lines 163-169: a failed query counts as used
is_wallet_unused(d, w, failed) == IF failed THEN FALSE ELSE ExpensesOf(d, w) = {}

LastActiveOffByOne(count) == count < 1
\* line 645: count_active_wallets() <= 1
LastActive(count) == count <= 1

\* lines 645-649: the last-active-wallet guard of archiving
wallet_archive_guard(s) ==
    /\ pc[s] = "wa_count"
    /\ \E failed \in BOOLEAN :
          IF LastActive(count_active_wallets(db, failed))
          THEN /\ pc' = [pc EXCEPT ![s] = "done"]
               /\ local' = [local EXCEPT ![s].outcome = "LastActiveWallet",
                                         ![s].failed = failed]
          ELSE /\ pc' = [pc EXCEPT ![s] = "wa_update"]
               /\ local' = [local EXCEPT ![s].failed = failed]
    /\ UNCHANGED <<db, writer, shown, rt>>
    /\ UNCHANGED <<calls, mode, ex, cache>>

\* lines 650-659, 679-682: UPDATE wallets SET is_archived = ? WHERE id = ?
wallet_archive_update(s) ==
    /\ pc[s] = "wa_update"
    /\ \/ /\ Leave(s, "StoreError")
          /\ UNCHANGED db
       \/ /\ writer = 0
          /\ LET w == local[s].wallet_id
                 new_status == ~(local[s].status = "Archived")
             IN  db' = IF w \in DOMAIN db.wallets
                       THEN [db EXCEPT !.wallets[w].is_archived = new_status]
                       ELSE db
          /\ pc' = [pc EXCEPT ![s] = "done"]
          /\ local' = [local EXCEPT ![s].mutated = (db' # db), ![s].outcome = "ok"]
    /\ shown' = Show(shown, db')
    /\ rt' = NoRt
    /\ UNCHANGED writer
    /\ UNCHANGED <<calls, mode, ex, cache>>

\* lines 665-668: the has-expenses guard of deleting
wallet_delete_guard(s) ==
    /\ pc[s] = "wa_unused"
    /\ \E failed \in BOOLEAN :
          IF ~is_wallet_unused(db, local[s].wallet_id, failed)
          THEN /\ pc' = [pc EXCEPT ![s] = "done"]
               /\ local' = [local EXCEPT ![s].outcome = "WalletHasExpenses",
                                         ![s].failed = failed]
          ELSE /\ pc' = [pc EXCEPT ![s] = "wa_delete"]
               /\ local' = [local EXCEPT ![s].failed = failed]
    /\ UNCHANGED <<db, writer, shown, rt>>
    /\ UNCHANGED <<calls, mode, ex, cache>>

\* lines 669-675, 679-682: DELETE FROM wallets WHERE id = ?
wallet_delete(s) ==
    /\ pc[s] = "wa_delete"
    /\ \/ /\ Leave(s, "StoreError")
          /\ UNCHANGED db
       \/ /\ writer = 0
          /\ db' = [db EXCEPT !.wallets = Remove(@, local[s].wallet_id)]
          /\ pc' = [pc EXCEPT ![s] = "done"]
          /\ local' = [local EXCEPT ![s].mutated = (db' # db), ![s].outcome = "ok"]
    /\ shown' = Show(shown, db')
    /\ rt' = NoRt
    /\ UNCHANGED writer
    /\ UNCHANGED <<calls, mode, ex, cache>>

-----------------------------------------------------------------------------
(* The adapter *)

\* the handler's outputs reach the browser and the request ends
Return(s) ==
    /\ pc[s] = "done"
    /\ pc' = [pc EXCEPT ![s] = "idle"]
    /\ local' = [local EXCEPT ![s] = NoLocal]
    /\ UNCHANGED <<db, writer, shown, rt>>
    /\ UNCHANGED <<calls, mode, ex, cache>>

\* requests of the sessions interleave
Next ==
    \E s \in Sessions :
        \/ save_expense(s)
        \/ save_expense_read(s)
        \/ save_expense_insert(s)
        \/ save_expense_commit(s)
        \/ save_expense_rollback(s)
        \/ delete_expense(s)
        \/ delete_expense_read(s)
        \/ delete_expense_delete(s)
        \/ delete_expense_commit(s)
        \/ delete_expense_rollback(s)
        \/ add_wallet(s)
        \/ add_wallet_insert(s)
        \/ handle_wallet_action(s)
        \/ wallet_archive_guard(s)
        \/ wallet_archive_update(s)
        \/ wallet_delete_guard(s)
        \/ wallet_delete(s)
        \/ Return(s)

Spec == Init /\ [][Next]_vars

\* calls executed one at a time
SeqSpec == InitSeq /\ [][Next]_vars

-----------------------------------------------------------------------------
(* The store-access layer: execute_with_retry, and the write blocks of     *)
(* save_expense, delete_expense and add_wallet, which open a connection of *)
(* their own.  Here a call is followed through its connections, attempts   *)
(* and sleeps; what its statements do to the rows is followed in Spec.     *)

retries == 3            \* line 101: retries=3
base_delay == 2         \* line 101: base_delay=2

QueryInputs == {"SELECT", "INSERT"}       \* a query that reads, one that writes
WriteBlocks == {"save_expense", "delete_expense", "add_wallet"}

\* an attempt ends with "ok", with "locked" (sqlite3.OperationalError
\* "database is locked") or with "other" (any other sqlite3.Error)
StoreErrors == {"locked", "other"}

RetryAnyError(error, attempt) == attempt < retries - 1
\* line 110: "database is locked" in str(e) and attempt < retries - 1
ShouldRetry(error, attempt) == error = "locked" /\ attempt < retries - 1

DelayFixed(attempt) == base_delay
\* line 112: base_delay * (2 ** attempt)
Delay(attempt) == base_delay * 2 ^ attempt

\* SQLite refuses a statement with "database is locked" while another
\* connection holds the write lock
LockedOut(s) == writer \notin {0, s}

Release(s) == IF writer = s THEN 0 ELSE writer

\* line 101: execute_with_retry(query, params) is called
execute_with_retry(s) ==
    /\ pc[s] = "idle"
    /\ \E query \in QueryInputs :
          ex' = [ex EXCEPT ![s] = [NoEx EXCEPT !.query = query]]
    /\ pc' = [pc EXCEPT ![s] = "ex_connect"]
    /\ UNCHANGED <<db, writer, local, shown, rt, calls, mode, cache>>

\* lines 102-103: the next attempt opens its connection; sqlite3.connect may
\* raise, outside the try block
exec_connect(s) ==
    /\ pc[s] = "ex_connect"
    /\ \/ /\ pc' = [pc EXCEPT ![s] = "ex_execute"]
          /\ ex' = [ex EXCEPT ![s].conn = TRUE]
       \/ /\ pc' = [pc EXCEPT ![s] = "ex_raised"]
          /\ ex' = [ex EXCEPT ![s].trace = Append(@, "other")]
    /\ UNCHANGED <<db, writer, local, shown, rt, calls, mode, cache>>

\* lines 109-118: the except clauses.  A retried attempt sleeps inside the
\* with block, so its connection is closed only when `continue` leaves the
\* block; a raise leaves the block at once, which closes the connection and
\* rolls back what it had not committed.
exec_fail(s, error) ==
    IF ShouldRetry(error, ex[s].attempt)
    THEN /\ pc' = [pc EXCEPT ![s] = "ex_sleep"]
         /\ ex' = [ex EXCEPT ![s].trace = Append(@, error),
                             ![s].slept = Append(@, Delay(ex[s].attempt))]
         /\ UNCHANGED writer
    ELSE /\ pc' = [pc EXCEPT ![s] = "ex_raised"]
         /\ ex' = [ex EXCEPT ![s].trace = Append(@, error), ![s].conn = FALSE]
         /\ writer' = Release(s)

\* lines 105-107: cursor.execute and fetchall; a write takes the write lock
exec_execute(s) ==
    /\ pc[s] = "ex_execute"
    /\ \/ LockedOut(s) /\ exec_fail(s, "locked")
       \/ exec_fail(s, "other")
       \/ /\ ex[s].query = "SELECT" \/ writer = 0
          /\ writer' = IF ex[s].query = "SELECT" THEN writer ELSE s
          /\ pc' = [pc EXCEPT ![s] = "ex_commit"]
          /\ UNCHANGED ex
    /\ UNCHANGED <<db, local, shown, rt, calls, mode, cache>>

\* lines 108-109: conn.commit() and return result, which closes the connection
exec_commit(s) ==
    /\ pc[s] = "ex_commit"
    /\ \/ exec_fail(s, "other")
       \/ /\ pc' = [pc EXCEPT ![s] = "ex_returned"]
          /\ ex' = [ex EXCEPT ![s].trace = Append(@, "ok"), ![s].conn = FALSE]
          /\ writer' = Release(s)
    /\ UNCHANGED <<db, local, shown, rt, calls, mode, cache>>

\* lines 112-113: time.sleep returns and `continue` leaves the with block
exec_wake(s) ==
    /\ pc[s] = "ex_sleep"
    /\ pc' = [pc EXCEPT ![s] = "ex_connect"]
    /\ ex' = [ex EXCEPT ![s].conn = FALSE, ![s].attempt = @ + 1]
    /\ UNCHANGED <<db, writer, local, shown, rt, calls, mode, cache>>

\* lines 755, 830, 589: `with get_db_connection() as conn` in a handler
write_block(s) ==
    /\ pc[s] = "idle"
    /\ \E block \in WriteBlocks :
          ex' = [ex EXCEPT ![s] = [NoEx EXCEPT !.query = block, !.conn = TRUE]]
    /\ pc' = [pc EXCEPT ![s] = "wb_execute"]
    /\ UNCHANGED <<db, writer, local, shown, rt, calls, mode, cache>>

\* lines 771-773, 841-843, 603-605: a sqlite3.Error of the block leaves the
\* with block and reaches the handler's except clause
write_block_fail(s, error) ==
    /\ pc' = [pc EXCEPT ![s] = "wb_raised"]
    /\ ex' = [ex EXCEPT ![s].trace = Append(@, error), ![s].conn = FALSE]
    /\ writer' = Release(s)

\* lines 756-759, 831, 590-593: the first statement takes the write lock
write_block_execute(s) ==
    /\ pc[s] = "wb_execute"
    /\ \/ LockedOut(s) /\ write_block_fail(s, "locked")
       \/ write_block_fail(s, "other")
       \/ /\ writer = 0
          /\ writer' = s
          /\ pc' = [pc EXCEPT ![s] = "wb_commit"]
          /\ UNCHANGED ex
    /\ UNCHANGED <<db, local, shown, rt, calls, mode, cache>>

\* lines 760-762, 832-834, 594: the remaining statement and conn.commit()
write_block_commit(s) ==
    /\ pc[s] = "wb_commit"
    /\ \/ write_block_fail(s, "other")
       \/ /\ pc' = [pc EXCEPT ![s] = "wb_returned"]
          /\ ex' = [ex EXCEPT ![s].trace = Append(@, "ok"), ![s].conn = FALSE]
          /\ writer' = Release(s)
    /\ UNCHANGED <<db, local, shown, rt, calls, mode, cache>>

ExitPcs == {"ex_returned", "ex_raised", "wb_returned", "wb_raised"}

\* the result or the exception reaches the caller
exec_exit(s) ==
    /\ pc[s] \in ExitPcs
    /\ pc' = [pc EXCEPT ![s] = "idle"]
    /\ UNCHANGED <<db, writer, local, shown, rt, calls, mode, ex, cache>>

ExecNext ==
    \E s \in Sessions :
        \/ execute_with_retry(s)
        \/ exec_connect(s)
        \/ exec_execute(s)
        \/ exec_commit(s)
        \/ exec_wake(s)
        \/ write_block(s)
        \/ write_block_execute(s)
        \/ write_block_commit(s)
        \/ exec_exit(s)

\* the steps of a call that has started: its thread keeps running
ExecStep(s) ==
    \/ exec_connect(s)
    \/ exec_execute(s)
    \/ exec_commit(s)
    \/ exec_wake(s)
    \/ write_block_execute(s)
    \/ write_block_commit(s)
    \/ exec_exit(s)

ExecSpec == Init /\ [][ExecNext]_vars

ExecFair == ExecSpec /\ \A s \in Sessions : WF_vars(ExecStep(s))

-----------------------------------------------------------------------------
(* Categories and subcategories: add_category, add_subcategory and the     *)
(* cached get_categories, which the page load calls as well                *)

CategoryNameInputs ==
    {NoneText, Str(<<" ", "F", "o", "o", "d", "!">>), Str(<<"R", "e", "n", "t">>)}
SubcategoryNameInputs == {Str(<<"!">>), Str(<<"G", "y", "m">>)}
\* no category selected, the first category, an id no category has
CategoryIdInputs == {0, 1, Len(SeedCategories) + 2}

Elements(seq) == {seq[i] : i \in 1 .. Len(seq)}

\* INSERT OR IGNORE INTO categories (name): UNIQUE(name) drops the row silently
InsertOrIgnoreCategory(d, name) ==
    IF name \in Elements(d.categories)
    THEN d
    ELSE [d EXCEPT !.categories = Append(@, name), !.category_seq = @ + 1]

\* INSERT OR IGNORE INTO subcategories (name, category_id): UNIQUE(name,
\* category_id) drops the row silently; the foreign key is not enforced
InsertOrIgnoreSubcategory(d, name, category_id) ==
    LET row == [name |-> name, category_id |-> category_id] IN
    IF row \in Elements(d.subcategories)
    THEN d
    ELSE [d EXCEPT !.subcategories = Append(@, row), !.subcategory_seq = @ + 1]

\* SELECT id, name FROM subcategories WHERE category_id = ?
SubcategoriesOf(d, category_id) ==
    SelectSeq(d.subcategories, LAMBDA row : row.category_id = category_id)

CategoryPcs == {"ac_insert", "ac_clear", "gc_lookup", "gc_read", "gc_store"}

\* history: the categories stored by add_category calls that have returned
AddedCategories ==
    {name \in Elements(db.categories) \ Elements(SeedCategories) :
        ~\E t \in Sessions :
            /\ pc[t] \in CategoryPcs
            /\ local[t].action = "add_category"
            /\ local[t].txn[1].name = name}

\* lines 491-495: sanitization and validation
add_category(s) ==
    /\ CanStart(s)
    /\ \E name \in CategoryNameInputs :
          IF sanitize_input(name) = <<>>
          THEN Leave(s, "ValidationError")
          ELSE /\ pc' = [pc EXCEPT ![s] = "ac_insert"]
               /\ local' = [local EXCEPT
                     ![s].action = "add_category",
                     ![s].txn = <<[op |-> "INSERT OR IGNORE categories",
                                   name |-> sanitize_input(name)]>>]
    /\ StartRt
    /\ UNCHANGED <<db, writer, shown>>

\* line 496: execute_with_retry('INSERT OR IGNORE INTO categories ...')
add_category_insert(s) ==
    /\ pc[s] = "ac_insert"
    /\ \/ Leave(s, "StoreError") /\ UNCHANGED db
       \/ /\ writer = 0
          /\ db' = InsertOrIgnoreCategory(db, local[s].txn[1].name)
          /\ pc' = [pc EXCEPT ![s] = "ac_clear"]
          /\ local' = [local EXCEPT ![s].mutated = (db' # db)]
    /\ UNCHANGED <<writer, shown, rt, calls, mode, ex, cache>>

\* line 497: get_categories.cache_clear()
add_category_clear(s) ==
    /\ pc[s] = "ac_clear"
    /\ cache' = NoCache
    /\ pc' = [pc EXCEPT ![s] = "gc_lookup"]
    /\ UNCHANGED <<db, writer, local, shown, rt, calls, mode, ex>>

\* lines 458-461: the page load asks for the categories (and for the wallets
\* and expenses, which this specification leaves as they are)
initialize_dropdowns_and_table(s) ==
    /\ CanStart(s)
    /\ pc' = [pc EXCEPT ![s] = "gc_lookup"]
    /\ local' = [local EXCEPT ![s].action = "initialize_dropdowns_and_table",
                              ![s].seen = AddedCategories]
    /\ shown' = Show(shown, db)
    /\ StartRt
    /\ UNCHANGED <<db, writer>>

\* line 121: the lru_cache wrapper returns the cached result when it has one
get_categories_lookup(s) ==
    /\ pc[s] = "gc_lookup"
    /\ IF cache.filled
       THEN /\ pc' = [pc EXCEPT ![s] = "done"]
            /\ local' = [local EXCEPT ![s].rows = cache.rows, ![s].outcome = "ok",
                                      ![s].txn = <<>>]
       ELSE /\ pc' = [pc EXCEPT ![s] = "gc_read"]
            /\ UNCHANGED local
    /\ UNCHANGED <<db, writer, shown, rt, calls, mode, ex, cache>>

\* lines 123-129: the body of get_categories; a failed query gives an empty
\* frame
get_categories(s) ==
    /\ pc[s] = "gc_read"
    /\ \E failed \in BOOLEAN :
          local' = [local EXCEPT ![s].rows = IF failed THEN <<>> ELSE db.categories,
                                 ![s].failed = failed]
    /\ pc' = [pc EXCEPT ![s] = "gc_store"]
    /\ UNCHANGED <<db, writer, shown, rt, calls, mode, ex, cache>>

\* line 121: the wrapper stores the result, unless another caller has stored
\* one meanwhile, and returns it to add_category (lines 498-501) or to the
\* page load (lines 463-470)
get_categories_store(s) ==
    /\ pc[s] = "gc_store"
    /\ cache' = IF cache.filled THEN cache
                ELSE [filled |-> TRUE, rows |-> local[s].rows]
    /\ pc' = [pc EXCEPT ![s] = "done"]
    /\ local' = [local EXCEPT ![s].outcome = "ok", ![s].txn = <<>>]
    /\ UNCHANGED <<db, writer, shown, rt, calls, mode, ex>>

\* lines 544-548: sanitization and validation
add_subcategory(s) ==
    /\ CanStart(s)
    /\ \E category_id \in CategoryIdInputs, name \in SubcategoryNameInputs :
          IF ~(category_id # 0 /\ sanitize_input(name) # <<>>)
          THEN Leave(s, "ValidationError")
          ELSE /\ pc' = [pc EXCEPT ![s] = "as_insert"]
               /\ local' = [local EXCEPT
                     ![s].action = "add_subcategory",
                     ![s].txn = <<[op |-> "INSERT OR IGNORE subcategories",
                                   name |-> sanitize_input(name),
                                   category_id |-> category_id]>>]
    /\ StartRt
    /\ UNCHANGED <<db, writer, shown>>

\* lines 549-550: execute_with_retry('INSERT OR IGNORE INTO subcategories ...')
add_subcategory_insert(s) ==
    /\ pc[s] = "as_insert"
    /\ \/ Leave(s, "StoreError") /\ UNCHANGED db
       \/ /\ writer = 0
          /\ db' = InsertOrIgnoreSubcategory(db, local[s].txn[1].name,
                                             local[s].txn[1].category_id)
          /\ pc' = [pc EXCEPT ![s] = "as_read"]
          /\ local' = [local EXCEPT ![s].mutated = (db' # db)]
    /\ UNCHANGED <<writer, shown, rt, calls, mode, ex, cache>>

\* lines 551-557, 131-141: get_subcategories(category_id), where a failed query
\* gives an empty frame, and the success return
add_subcategory_read(s) ==
    /\ pc[s] = "as_read"
    /\ \E failed \in BOOLEAN :
          local' = [local EXCEPT
             ![s].rows = IF failed THEN <<>>
                         ELSE SubcategoriesOf(db, local[s].txn[1].category_id),
             ![s].failed = failed,
             ![s].outcome = "ok"]
    /\ pc' = [pc EXCEPT ![s] = "done"]
    /\ UNCHANGED <<db, writer, shown, rt, calls, mode, ex, cache>>

CatNext ==
    \E s \in Sessions :
        \/ add_category(s)
        \/ add_category_insert(s)
        \/ add_category_clear(s)
        \/ initialize_dropdowns_and_table(s)
        \/ get_categories_lookup(s)
        \/ get_categories(s)
        \/ get_categories_store(s)
        \/ add_subcategory(s)
        \/ add_subcategory_insert(s)
        \/ add_subcategory_read(s)
        \/ Return(s)

CatSpec == Init /\ [][CatNext]_vars

-----------------------------------------------------------------------------
(* The database setup, which runs whenever the application process starts  *)

\* expenses.db before the first start: CREATE TABLE IF NOT EXISTS makes the
\* four tables, empty
EmptyDb ==
    [wallets |-> <<>>, wallet_seq |-> 0, expenses |-> <<>>, expense_seq |-> 0,
     categories |-> <<>>, category_seq |-> 0,
     subcategories |-> <<>>, subcategory_seq |-> 0]

\* lines 78-79: INSERT OR IGNORE INTO categories for each seed name in turn
RECURSIVE InsertOrIgnoreCategories(_, _)
InsertOrIgnoreCategories(d, names) ==
    IF names = <<>> THEN d
    ELSE InsertOrIgnoreCategories(InsertOrIgnoreCategory(d, Head(names)), Tail(names))

InsertOrReplaceWallet(d, type, name, opening) ==
    LET kept == {w \in DOMAIN d.wallets : d.wallets[w].name # name} IN
    [d EXCEPT !.wallets = ((d.wallet_seq + 1) :> Wallet(type, name, opening))
                          @@ [w \in kept |-> d.wallets[w]],
              !.wallet_seq = @ + 1]
\* lines 80-83: INSERT OR IGNORE INTO wallets: UNIQUE(name) drops the row
\* silently when a wallet of that name is stored
InsertOrIgnoreWallet(d, type, name, opening) ==
    IF NameTaken(d, name)
    THEN d
    ELSE [d EXCEPT !.wallets = ((d.wallet_seq + 1) :> Wallet(type, name, opening)) @@ @,
                   !.wallet_seq = @ + 1]

\* lines 44-84: the statements of the setup, committed together
Setup(d) ==
    InsertOrIgnoreWallet(
        InsertOrIgnoreWallet(InsertOrIgnoreCategories(d, SeedCategories),
                             "Cash", MainName, MainOpening),
        "Mpesa", MpesaName, MpesaOpening)

\* lines 44-88: the process starts while no handler runs; the new process has
\* an empty cache, and the tables open in the browsers stay as they are.  (A
\* setup that raises commits nothing and the process does not start.)
database_setup ==
    /\ \A s \in Sessions : pc[s] = "idle"
    /\ calls < MaxRestartCalls
    /\ writer = 0
    /\ db' = Setup(db)
    /\ cache' = NoCache
    /\ ex' = [s \in Sessions |-> NoEx]
    /\ rt' = NoRt
    /\ Called
    /\ UNCHANGED <<writer, pc, local, shown, mode>>

\* calls executed one at a time, with restarts of the process between them
RestartNext ==
    \/ database_setup
    \/ \E s \in Sessions :
        \/ save_expense(s)
        \/ save_expense_read(s)
        \/ save_expense_insert(s)
        \/ save_expense_commit(s)
        \/ save_expense_rollback(s)
        \/ delete_expense(s)
        \/ delete_expense_read(s)
        \/ delete_expense_delete(s)
        \/ delete_expense_commit(s)
        \/ delete_expense_rollback(s)
        \/ add_wallet(s)
        \/ add_wallet_insert(s)
        \/ handle_wallet_action(s)
        \/ wallet_archive_guard(s)
        \/ wallet_archive_update(s)
        \/ wallet_delete_guard(s)
        \/ wallet_delete(s)
        \/ add_category(s)
        \/ add_category_insert(s)
        \/ add_category_clear(s)
        \/ get_categories_lookup(s)
        \/ get_categories(s)
        \/ get_categories_store(s)
        \/ add_subcategory(s)
        \/ add_subcategory_insert(s)
        \/ add_subcategory_read(s)
        \/ Return(s)

RestartSpec == InitRestart /\ [][RestartNext]_vars

-----------------------------------------------------------------------------
(* Properties *)

Acts(s) == pc'[s] # pc[s]            \* the step is taken by session s

Balance(d, w) == d.wallets[w].current_balance

C2_NonNegativeBalance ==
    \A w \in DOMAIN db.wallets : Balance(db, w) >= 0

\* C3: the expense row and the balance move in the same commit: a step that
\* inserts an expense row debits its wallet by the amount, a step that debits a
\* wallet inserts the expense row, a step that deletes an expense row credits
\* its wallet by the amount, and a write block that fails leaves the store as
\* it was.
C3_AtomicLedgerWrite ==
    [][/\ \A e \in DOMAIN db'.expenses \ DOMAIN db.expenses :
             LET w == db'.expenses[e].wallet_id IN
             w \in DOMAIN db.wallets =>
                 /\ w \in DOMAIN db'.wallets
                 /\ Balance(db', w) = Balance(db, w) - db'.expenses[e].amount
       /\ \A w \in DOMAIN db.wallets \cap DOMAIN db'.wallets :
             Balance(db', w) < Balance(db, w) =>
                 \E e \in DOMAIN db'.expenses \ DOMAIN db.expenses :
                     /\ db'.expenses[e].wallet_id = w
                     /\ db'.expenses[e].amount = Balance(db, w) - Balance(db', w)
       /\ \A e \in DOMAIN db.expenses \ DOMAIN db'.expenses :
             LET w == db.expenses[e].wallet_id IN
             w \in DOMAIN db.wallets =>
                 /\ w \in DOMAIN db'.wallets
                 /\ Balance(db', w) = Balance(db, w) + db.expenses[e].amount
       /\ \A s \in Sessions :
             (Acts(s) /\ pc[s] \in {"se_commit", "de_commit"}
                      /\ local'[s].outcome = "StoreError") => db' = db]_vars

\* a session reads the store while another holds an uncommitted INSERT
C3_Witness ==
    \E s, t \in Sessions :
        /\ pc[s] = "se_commit" /\ local[s].txn # <<>>
        /\ pc[t] \in {"se_read", "de_read", "wa_count", "wa_unused"}

C5_InsufficientBalance ==
    /\ [](\A s \in Sessions : local[s].outcome = "InsufficientBalance" => ~local[s].mutated)
    /\ [][\A s \in Sessions :
            LET w == local[s].wallet_id IN
            (/\ Acts(s) /\ pc[s] = "se_read"
             /\ w \in DOMAIN db.wallets
             /\ ~db.wallets[w].is_archived
             /\ local[s].amount > Balance(db, w))
            => /\ pc'[s] = "done"
               /\ local'[s].outcome \in {"InsufficientBalance", "StoreError"}
               /\ db' = db]_vars

\* a call was rejected for an amount above the balance of an active wallet
C5_Witness ==
    \E s \in Sessions :
        /\ pc[s] = "done" /\ local[s].outcome = "InsufficientBalance"
        /\ local[s].wallet_id \in DOMAIN db.wallets
        /\ ~db.wallets[local[s].wallet_id].is_archived
        /\ local[s].amount > Balance(db, local[s].wallet_id)

\* C6: a recordExpense that reads a wallet whose is_archived flag is set
\* leaves with WalletArchived (or with the store error of the read) without
\* changing the store, whatever the amount and the balance, and a call that
\* left with WalletArchived has made no mutation.
C6_WalletArchived ==
    /\ [](\A s \in Sessions : local[s].outcome = "WalletArchived" => ~local[s].mutated)
    /\ [][\A s \in Sessions :
            LET w == local[s].wallet_id IN
            (/\ Acts(s) /\ pc[s] = "se_read"
             /\ w \in DOMAIN db.wallets
             /\ db.wallets[w].is_archived)
            => /\ pc'[s] = "done"
               /\ local'[s].outcome \in {"WalletArchived", "StoreError"}
               /\ db' = db]_vars

\* a call was rejected on an archived wallet whose balance covers the amount
C6_Witness ==
    \E s \in Sessions :
        /\ pc[s] = "done" /\ local[s].outcome = "WalletArchived"
        /\ local[s].wallet_id \in DOMAIN db.wallets
        /\ db.wallets[local[s].wallet_id].is_archived
        /\ local[s].amount <= Balance(db, local[s].wallet_id)

\* C7: at least one wallet with is_archived = false exists in every state
\* reachable by calls executed one at a time.
C7_AtLeastOneActiveWallet ==
    ActiveWallets(db) # {}

\* C8: an archive request for the only wallet with is_archived = false leaves
\* with InvariantViolation (last active wallet) and changes nothing: the wallet
\* is still unarchived and the active wallets are the same.
C8_LastActiveNotArchived ==
    /\ [](\A s \in Sessions : local[s].outcome = "LastActiveWallet" => ~local[s].mutated)
    /\ [][\A s \in Sessions :
            (/\ Acts(s) /\ pc[s] = "wa_count"
             /\ ActiveWallets(db) = {local[s].wallet_id})
            => /\ pc'[s] = "done"
               /\ local'[s].outcome = "LastActiveWallet"
               /\ db' = db
               /\ ActiveWallets(db') = {local[s].wallet_id}]_vars

\* two wallets, one active: archiving the active one was rejected
C8_Witness ==
    \E s \in Sessions :
        /\ pc[s] = "done" /\ local[s].outcome = "LastActiveWallet" /\ ~local[s].failed
        /\ ActiveWallets(db) = {local[s].wallet_id}
        /\ Cardinality(DOMAIN db.wallets) >= 2

\* C9: with calls executed one at a time, a delete request for a wallet that an
\* expense references leaves with InvariantViolation and changes nothing, no
\* wallet is removed while an expense references it, and a delete request on a
\* row shown as Active for a wallet without expenses removes exactly that
\* wallet unless a store access fails.
C9_DeleteWallet ==
    [][/\ \A s \in Sessions :
            LET w == local[s].wallet_id IN
            /\ (Acts(s) /\ pc[s] = "wa_unused" /\ ExpensesOf(db, w) # {})
               => /\ pc'[s] = "done"
                  /\ local'[s].outcome \in InvariantViolation
                  /\ db' = db
            /\ (Acts(s) /\ pc[s] = "wa_unused" /\ ExpensesOf(db, w) = {}
                        /\ ~local'[s].failed)
               => pc'[s] = "wa_delete"
            /\ (Acts(s) /\ pc[s] = "wa_delete" /\ local'[s].outcome # "StoreError")
               => /\ local'[s].outcome = "ok"
                  /\ db' = [db EXCEPT !.wallets = Remove(@, w)]
       /\ \A w \in DOMAIN db.wallets \ DOMAIN db'.wallets :
            /\ ExpensesOf(db, w) = {}
            /\ db'.expenses = db.expenses]_vars

\* after one wallet was deleted, the delete of a wallet with an expense was
\* rejected
C9_Witness ==
    \E s \in Sessions :
        /\ pc[s] = "done" /\ local[s].outcome = "WalletHasExpenses" /\ ~local[s].failed
        /\ local[s].wallet_id \in DOMAIN db.wallets
        /\ ExpensesOf(db, local[s].wallet_id) # {}
        /\ Cardinality(DOMAIN db.wallets) < db.wallet_seq

\* C10: no step removes a wallet whose stored is_archived flag is set.
C10_ArchivedNeverDeleted ==
    [][\A w \in DOMAIN db.wallets \ DOMAIN db'.wallets : ~db.wallets[w].is_archived]_vars

\* C11: under any interleaving of deleteWallet and recordExpense, the wallet_id
\* of every recorded expense is the id of a wallet that exists in the store.
C11_ExpenseWalletExists ==
    \A e \in DOMAIN db.expenses : db.expenses[e].wallet_id \in DOMAIN db.wallets

\* C12: under any interleaving of deleteExpense requests, once no delete is
\* running every wallet's current_balance equals its opening_balance minus the
\* sum of the recorded amounts: an expense is credited back exactly once.
C12_CreditedOnce ==
    (\A s \in Sessions : pc[s] \notin DeletePcs) =>
        \A w \in DOMAIN db.wallets :
            Balance(db, w) =
                db.wallets[w].opening_balance - SumAmounts(db, ExpensesOf(db, w))

\* C13: with calls executed one at a time, a deleteExpense of a recorded
\* expense whose wallet is archived is not rejected for the archive flag, and
\* unless the store fails it succeeds, removes the expense row and credits the
\* full amount to that wallet, leaving is_archived and everything else as it
\* was.
C13_ReversalOnArchivedWallet ==
    [][\A s \in Sessions :
          LET e == local[s].expense_id IN
          (/\ Acts(s)
           /\ e \in DOMAIN db.expenses
           /\ db.expenses[e].wallet_id \in DOMAIN db.wallets
           /\ db.wallets[db.expenses[e].wallet_id].is_archived)
          => LET w == db.expenses[e].wallet_id IN
             /\ pc[s] = "de_read"
                  => pc'[s] = "de_delete" \/ local'[s].outcome = "StoreError"
             /\ (pc[s] = "de_commit" /\ local'[s].outcome # "StoreError")
                  => /\ local'[s].outcome = "ok"
                     /\ db' = [db EXCEPT
                                 !.expenses = Remove(@, e),
                                 !.wallets[w].current_balance = @ + db.expenses[e].amount]
                     /\ db'.wallets[w].is_archived]_vars

\* the expense of a wallet archived after the record was deleted and the
\* archived wallet holds its opening balance again
C13_Witness ==
    \E s \in Sessions :
        /\ pc[s] = "done" /\ local[s].outcome = "ok" /\ local[s].mutated
        /\ local[s].expense_id # 0
        /\ local[s].expense_id \notin DOMAIN db.expenses
        /\ local[s].wallet_id \in DOMAIN db.wallets
        /\ db.wallets[local[s].wallet_id].is_archived
        /\ Balance(db, local[s].wallet_id) = db.wallets[local[s].wallet_id].opening_balance

ExecPcs == {"ex_connect", "ex_execute", "ex_commit", "ex_sleep"}

\* the outcomes of the attempts before the last one
Earlier(trace) == {trace[i] : i \in 1 .. Len(trace) - 1}

\* C14: a call of execute_with_retry makes at most 3 attempts, every attempt
\* before the last one failed on "database is locked", the call returns only
\* when its last attempt succeeded, it raises right after an attempt that
\* failed otherwise or after a third locked attempt, and every call that has
\* started returns or raises.
C14_BoundedRetry ==
    /\ [](\A s \in Sessions :
            LET t == ex[s].trace IN
            pc[s] \in ExecPcs \cup {"ex_returned", "ex_raised"} =>
                /\ Len(t) <= retries
                /\ Earlier(t) \subseteq {"locked"}
                /\ pc[s] = "ex_returned" => t # <<>> /\ t[Len(t)] = "ok"
                /\ pc[s] = "ex_raised" =>
                      /\ t # <<>>
                      /\ \/ t[Len(t)] = "other"
                         \/ t[Len(t)] = "locked" /\ Len(t) = retries
                /\ pc[s] \in ExecPcs =>
                      /\ "ok" \notin {t[i] : i \in 1 .. Len(t)}
                      /\ "other" \notin {t[i] : i \in 1 .. Len(t)}
                      /\ Len(t) < retries)
    /\ \A s \in Sessions :
          (pc[s] \in ExecPcs) ~> (pc[s] \in {"ex_returned", "ex_raised"})

\* a call raised the lock error after three locked attempts
C14_Witness ==
    \E s \in Sessions :
        pc[s] = "ex_raised" /\ ex[s].trace = <<"locked", "locked", "locked">>

\* C15: a call that has returned or raised holds no open connection, and a
\* retrying executor holds no connection while it sleeps.
C15_ConnectionReleased ==
    \A s \in Sessions :
        /\ pc[s] \in ExitPcs \cup {"idle"} => ~ex[s].conn
        /\ pc[s] \in {"ex_sleep", "ex_connect"} => ~ex[s].conn

\* C16: a lock failure that hits the write of recordExpense, deleteExpense or
\* addWallet is surfaced to the caller only after 3 attempts.
C16_WritesRetried ==
    \A s \in Sessions :
        (/\ pc[s] \in {"ex_raised", "wb_raised"}
         /\ ex[s].query \in WriteBlocks
         /\ ex[s].trace # <<>>
         /\ ex[s].trace[Len(ex[s].trace)] = "locked")
        => Len(ex[s].trace) = retries

\* C17: an addCategory whose name already exists, and an addSubcategory whose
\* (name, categoryId) pair already exists, adds no row and does not report
\* success to the caller, and no two categories share a name.
C17_DuplicateRejected ==
    /\ \A i, j \in 1 .. Len(db.categories) :
          db.categories[i] = db.categories[j] => i = j
    /\ \A s \in Sessions :
          (/\ pc[s] = "done"
           /\ local[s].action \in {"add_category", "add_subcategory"}
           /\ local[s].outcome = "ok")
          => local[s].mutated

\* C18: the category_id of every stored subcategory is the id of a stored
\* category.
C18_SubcategoryCategoryExists ==
    \A i \in 1 .. Len(db.subcategories) :
        db.subcategories[i].category_id \in 1 .. Len(db.categories)

\* C19: every stored wallet has a type among Cash, Mpesa and Bank and an
\* opening_balance that is not negative.
C19_WalletTypeAndOpening ==
    \A w \in DOMAIN db.wallets :
        /\ db.wallets[w].type \in wallet_types
        /\ db.wallets[w].opening_balance >= 0

\* C20: under any interleaving no two wallets share a name; an addWallet whose
\* sanitized name is the name of a stored wallet leaves with DuplicateName and
\* changes nothing; otherwise, unless the store fails, it adds exactly one
\* wallet, with that name, current_balance = opening_balance = the opening
\* balance given and is_archived = false, and changes no other row.
C20_UniqueWalletName ==
    /\ [](\A v, w \in DOMAIN db.wallets :
            db.wallets[v].name = db.wallets[w].name => v = w)
    /\ [][\A s \in Sessions :
            (Acts(s) /\ pc[s] = "aw_insert" /\ local'[s].outcome # "StoreError") =>
                LET st == local[s].txn[1] IN
                IF \E w \in DOMAIN db.wallets : db.wallets[w].name = st.name
                THEN local'[s].outcome = "DuplicateName" /\ db' = db
                ELSE /\ local'[s].outcome = "ok"
                     /\ \E n \in DOMAIN db'.wallets \ DOMAIN db.wallets :
                           /\ DOMAIN db'.wallets = DOMAIN db.wallets \cup {n}
                           /\ db'.wallets[n].name = st.name
                           /\ db'.wallets[n].current_balance = st.opening
                           /\ db'.wallets[n].opening_balance = st.opening
                           /\ ~db'.wallets[n].is_archived
                     /\ \A w \in DOMAIN db.wallets : db'.wallets[w] = db.wallets[w]
                     /\ db'.expenses = db.expenses]_vars

\* an addWallet with the name of a stored wallet was rejected, after the
\* sanitized name passed the validation
C20_Witness ==
    \E s \in Sessions :
        /\ pc[s] = "done" /\ local[s].outcome = "DuplicateName"
        /\ \E w \in DOMAIN db.wallets : db.wallets[w].name = MainName

\* C21: under any interleaving of addCategory and listCategories callers, a
\* list of categories returned to a page load (a list that a query of the
\* store produced, so not the empty frame of a failed query) contains every
\* category whose addCategory call had returned before the page load began.
C21_CacheInvalidated ==
    \A s \in Sessions :
        (/\ pc[s] = "done"
         /\ local[s].action = "initialize_dropdowns_and_table"
         /\ local[s].rows # <<>>)
        => local[s].seen \subseteq Elements(local[s].rows)

\* C28: a page load whose own query of the categories did not fail returns the
\* stored categories, of which the seed categories are always part, whatever
\* failed in earlier calls.
C28_CacheNotPoisoned ==
    \A s \in Sessions :
        (/\ pc[s] = "done"
         /\ local[s].action = "initialize_dropdowns_and_table"
         /\ ~local[s].failed)
        => Elements(SeedCategories) \subseteq Elements(local[s].rows)

\* C22: the validation of recordExpense rejects every form in which the date,
\* the hour, the minute, the wallet or the category is missing or the amount is
\* missing or not positive; a call reaches the store only with a positive
\* amount and a wallet; and a step that ends in a validation error is the first
\* step of its call and leaves the store and its lock as they were.
C22_ValidationFirst ==
    /\ [](calls = 0 =>
            \A date, hour, minute, category_id \in BOOLEAN,
               amount \in AmountInputs, wallet_id \in WalletIdInputs :
                (\/ ~date \/ ~hour \/ ~minute \/ ~category_id
                 \/ wallet_id = 0 \/ amount = None \/ amount[1] <= 0)
                => Invalid(date, hour, minute, amount, wallet_id, category_id))
    /\ [](\A s \in Sessions :
            pc[s] \in SavePcs => local[s].amount > 0 /\ local[s].wallet_id # 0)
    /\ [][\A s \in Sessions :
            (Acts(s) /\ local'[s].outcome = "ValidationError")
            => /\ pc[s] = "idle" /\ pc'[s] = "done"
               /\ db' = db /\ writer' = writer]_vars

\* a form was rejected by the validation after expenses had been recorded, with
\* every wallet id issued (the rejected form is one of recordExpense)
C22_Witness ==
    \E s \in Sessions :
        /\ pc[s] = "done" /\ local[s].outcome = "ValidationError"
        /\ db.wallet_seq = MaxWallets
        /\ db.expenses # <<>>

\* C23: under any interleaving, the new balance a successful recordExpense
\* reports is the current_balance the store holds for its wallet right after
\* the commit of the expense.
C23_ReportedBalance ==
    [][\A s \in Sessions :
          (/\ Acts(s) /\ pc[s] = "se_commit" /\ local'[s].outcome = "ok"
           /\ local[s].wallet_id \in DOMAIN db'.wallets)
          => local'[s].new_balance = Balance(db', local[s].wallet_id)]_vars

\* C24: with calls executed one at a time, an expense id is never issued
\* twice, an expense that was deleted never comes back, a successful
\* deleteExpense leaves its expense absent, and a deleteExpense of an absent
\* expense finds nothing and leaves the store as it was.
C24_ExpenseLifecycle ==
    [][/\ db'.expense_seq >= db.expense_seq
       /\ \A e \in DOMAIN db'.expenses \ DOMAIN db.expenses : e > db.expense_seq
       /\ \A e \in 1 .. db.expense_seq :
             e \notin DOMAIN db.expenses => e \notin DOMAIN db'.expenses
       /\ \A s \in Sessions :
             /\ (Acts(s) /\ pc[s] = "de_commit" /\ local'[s].outcome = "ok")
                => local[s].expense_id \notin DOMAIN db'.expenses
             /\ (Acts(s) /\ pc[s] = "de_read"
                         /\ local[s].expense_id \notin DOMAIN db.expenses)
                => /\ pc'[s] = "done"
                   /\ local'[s].outcome \in {"NotFound", "StoreError"}
                   /\ db' = db]_vars

\* a second deleteExpense of a deleted expense found nothing, after a later
\* expense had been recorded under a new id
C24_Witness ==
    \E s \in Sessions :
        /\ pc[s] = "done" /\ local[s].outcome = "NotFound"
        /\ local[s].expense_id \in 1 .. db.expense_seq
        /\ local[s].expense_id \notin DOMAIN db.expenses
        /\ \E e \in DOMAIN db.expenses : e > local[s].expense_id

\* C25: under any interleaving of archive requests, a step that removes no
\* wallet never takes the last active wallet away: if a wallet was active
\* before the step, a wallet is active after it.
C25_ConcurrentArchive ==
    [][(ActiveWallets(db) # {} /\ DOMAIN db'.wallets = DOMAIN db.wallets)
       => ActiveWallets(db') # {}]_vars

\* C26: a call of execute_with_retry has slept once after each locked attempt
\* that it retried, 2 time units after the first and 4 after the second, and
\* not after its last attempt: a call that has returned or raised has slept
\* one time less than it made attempts, so never after a failure that was not
\* a lock failure nor after the third locked attempt.
C26_Backoff ==
    \A s \in Sessions :
        ex[s].query \in QueryInputs =>
            /\ ex[s].slept \in {<<>>, <<2>>, <<2, 4>>}
            /\ pc[s] = "ex_sleep" => Len(ex[s].slept) = Len(ex[s].trace)
            /\ pc[s] \in {"ex_connect", "ex_execute", "ex_commit"}
                  => Len(ex[s].slept) = Len(ex[s].trace)
            /\ pc[s] \in {"ex_returned", "ex_raised"}
                  => Len(ex[s].slept) = Len(ex[s].trace) - 1
            /\ \A i \in 1 .. Len(ex[s].slept) : ex[s].trace[i] = "locked"

\* a call returned from its third attempt, having slept 2 and then 4
C26_Witness ==
    \E s \in Sessions :
        /\ pc[s] = "ex_returned"
        /\ ex[s].trace = <<"locked", "locked", "ok">>
        /\ ex[s].slept = <<2, 4>>

\* C27: with calls executed one at a time, a recordExpense whose amount equals
\* the current_balance of an existing active wallet is not rejected for its
\* balance, and unless the store fails it succeeds, records the expense and
\* leaves current_balance at 0.
C27_ExactBalance ==
    [][\A s \in Sessions :
          LET w == local[s].wallet_id IN
          (/\ Acts(s)
           /\ w \in DOMAIN db.wallets
           /\ ~db.wallets[w].is_archived
           /\ local[s].amount = Balance(db, w))
          => /\ pc[s] = "se_read"
                  => pc'[s] = "se_insert" \/ local'[s].outcome = "StoreError"
             /\ (pc[s] = "se_commit" /\ local'[s].outcome # "StoreError")
                  => /\ local'[s].outcome = "ok"
                     /\ Balance(db', w) = 0
                     /\ \E e \in DOMAIN db'.expenses \ DOMAIN db.expenses :
                           /\ db'.expenses[e].wallet_id = w
                           /\ db'.expenses[e].amount = local[s].amount]_vars

\* an expense of the whole balance was recorded and the wallet holds 0
C27_Witness ==
    \E s \in Sessions :
        /\ pc[s] = "done" /\ local[s].outcome = "ok"
        /\ local[s].expense_id \in DOMAIN db.expenses
        /\ local[s].wallet_id \in DOMAIN db.wallets
        /\ local[s].amount = local[s].balance
        /\ Balance(db, local[s].wallet_id) = 0

\* C29: with calls executed one at a time, an archive request whose count of
\* the active wallets fails and a delete request whose usage query fails are
\* rejected by that step with the store as it was, and such a call never
\* reaches its UPDATE or DELETE.
C29_GuardsFailClosed ==
    /\ [](\A s \in Sessions :
            (local[s].action \in {"Archive", "Delete"} /\ local[s].failed)
            => /\ pc[s] = "done"
               /\ local[s].outcome \in InvariantViolation
               /\ ~local[s].mutated)
    /\ [][\A s \in Sessions :
            /\ (Acts(s) /\ pc[s] = "wa_count" /\ local'[s].failed)
               => /\ pc'[s] = "done"
                  /\ local'[s].outcome = "LastActiveWallet"
                  /\ db' = db
            /\ (Acts(s) /\ pc[s] = "wa_unused" /\ local'[s].failed)
               => /\ pc'[s] = "done"
                  /\ local'[s].outcome = "WalletHasExpenses"
                  /\ db' = db]_vars

\* an archive request was rejected for a failed count although two wallets
\* are active
C29_Witness ==
    \E s \in Sessions :
        /\ pc[s] = "done" /\ local[s].action = "Archive" /\ local[s].failed
        /\ local[s].outcome = "LastActiveWallet"
        /\ Cardinality(ActiveWallets(db)) >= 2

\* C30: with calls executed one at a time, no step changes the opening_balance
\* of a wallet, and the commit of a recordExpense or deleteExpense adds or
\* removes at most one expense row and changes nothing else but the
\* current_balance of its wallet: every other wallet, the other fields of its
\* wallet, every other expense row, the categories and the subcategories are
\* as they were.
C30_Frame ==
    [][/\ \A w \in DOMAIN db.wallets \cap DOMAIN db'.wallets :
             db'.wallets[w].opening_balance = db.wallets[w].opening_balance
       /\ \A s \in Sessions :
             (Acts(s) /\ pc[s] \in {"se_commit", "de_commit"}) =>
                 LET w == local[s].wallet_id IN
                 /\ DOMAIN db'.wallets = DOMAIN db.wallets
                 /\ \A v \in DOMAIN db.wallets \ {w} : db'.wallets[v] = db.wallets[v]
                 /\ w \in DOMAIN db.wallets =>
                       db'.wallets[w] =
                           [db.wallets[w] EXCEPT
                               !.current_balance = db'.wallets[w].current_balance]
                 /\ \A e \in DOMAIN db.expenses \cap DOMAIN db'.expenses :
                       db'.expenses[e] = db.expenses[e]
                 /\ Cardinality((DOMAIN db.expenses \ DOMAIN db'.expenses)
                                \cup (DOMAIN db'.expenses \ DOMAIN db.expenses)) <= 1
                 /\ db'.categories = db.categories
                 /\ db'.subcategories = db.subcategories]_vars

\* an expense was recorded while another expense and another wallet existed
C30_Witness ==
    \E s \in Sessions :
        /\ pc[s] = "done" /\ local[s].outcome = "ok"
        /\ local[s].expense_id \in DOMAIN db.expenses
        /\ Cardinality(DOMAIN db.expenses) >= 2
        /\ Cardinality(DOMAIN db.wallets) >= 2

\* C31: a start of the process on a store that already holds data leaves
\* every stored wallet (balances and archive flag included), category,
\* subcategory and expense as it was; a row it adds is a seed wallet or a seed
\* category whose name no stored row had; afterwards no two wallets and no two
\* categories share a name, and running the setup once more changes nothing.
\* The setup is the only step that counts a call while no handler moves.
C31_SetupIdempotent ==
    [][(calls' # calls /\ pc' = pc) =>
         /\ db'.expenses = db.expenses
         /\ db'.expense_seq = db.expense_seq
         /\ db'.subcategories = db.subcategories
         /\ db'.subcategory_seq = db.subcategory_seq
         /\ \A w \in DOMAIN db.wallets :
               w \in DOMAIN db'.wallets /\ db'.wallets[w] = db.wallets[w]
         /\ Len(db'.categories) >= Len(db.categories)
         /\ SubSeq(db'.categories, 1, Len(db.categories)) = db.categories
         /\ \A w \in DOMAIN db'.wallets \ DOMAIN db.wallets :
               /\ db'.wallets[w] \in {Wallet("Cash", MainName, MainOpening),
                                      Wallet("Mpesa", MpesaName, MpesaOpening)}
               /\ \A v \in DOMAIN db.wallets :
                     db.wallets[v].name # db'.wallets[w].name
         /\ \A i \in (Len(db.categories) + 1) .. Len(db'.categories) :
               /\ db'.categories[i] \in Elements(SeedCategories)
               /\ db'.categories[i] \notin Elements(db.categories)
         /\ \A v, w \in DOMAIN db'.wallets :
               db'.wallets[v].name = db'.wallets[w].name => v = w
         /\ \A i, j \in 1 .. Len(db'.categories) :
               db'.categories[i] = db'.categories[j] => i = j
         /\ Setup(db') = db'
        /\ (calls = 0 => Setup(EmptyDb) = SeedDb)
      ]_vars

\* the process has started on a store where the Mpesa seed wallet had been
\* debited and the Cash seed wallet deleted: the Mpesa balance is kept, an
\* expense is stored, and the Cash seed wallet is back under a new id
C31_Witness ==
    /\ \A s \in Sessions : pc[s] = "idle"
    /\ 1 \notin DOMAIN db.wallets
    /\ 2 \in DOMAIN db.wallets
    /\ db.wallets[2].name = MpesaName
    /\ db.wallets[2].current_balance < MpesaOpening
    /\ DOMAIN db.expenses # {}
    /\ \E w \in DOMAIN db.wallets :
          w > 2 /\ db.wallets[w] = Wallet("Cash", MainName, MainOpening)

====
